---- MODULE Spec2Model ----
(***************************************************************************)
(* Model of apphandler.cpp: the firmware version parser (convert_version), *)
(* the Get Device ID handler with its lazily initialised static record,    *)
(* run query after query and as two invocations interleaved by statement,  *)
(* and the Get System GUID and Get Device GUID handlers.                   *)
(*                                                                         *)
(* A text is a sequence of one-character strings.  Positions are 0-based   *)
(* as in std::string; At(s, i) reads position i.                           *)
(***************************************************************************)
EXTENDS Integers, Sequences, FiniteSets, TLC

VARIABLES
    char_is_signed,       \* whether plain char is signed in this build
    \* ---- ipmi_app_get_device_id ----
    dev_id,               \* static ipmi_device_id_t dev_id
    dev_id_initialized,   \* static bool dev_id_initialized
    response,             \* bytes copied to the response buffer by the last query
    data_len,             \* *data_len as left by the last query
    rc,                   \* completion code returned by the last query
    outcome,              \* "none" | "return" | "exception": how the last query ended
    queries,              \* number of queries made so far
    last,                 \* what the last query saw: its sources and its locals
    hist,                 \* history: what earlier queries did
    \* ---- convert_version applied to one text ----
    cv_text,
    cv_pc,
    cv_out,
    cv_dev,
    \* ---- ipmi_app_get_sys_guid applied to one property value ----
    guid_text,
    guid_pc,
    guid_out,
    \* ---- ipmi_app_get_device_guid applied to the same value ----
    devguid_out,
    \* ---- invocations of ipmi_app_get_device_id interleaved by statement ----
    race_pc,              \* the statement each invocation executes next
    race_loc,             \* each invocation's locals: r, rev, data, st, rc
    race_resp,            \* the bytes each invocation copied to its response
    race_seen,            \* history: what the interleavings so far have shown
    race_runs             \* number of invocations started so far

devVars == <<dev_id, dev_id_initialized, response, data_len, rc, outcome,
             queries, last, hist>>
cvVars == <<cv_text, cv_pc, cv_out, cv_dev>>
guidVars == <<guid_text, guid_pc, guid_out, devguid_out>>
raceVars == <<race_pc, race_loc, race_resp, race_seen, race_runs>>
queryVars == <<response, data_len, rc, outcome, queries, last, hist>>
vars == <<char_is_signed, devVars, cvVars, guidVars, raceVars>>

(***************************************************************************)
(* Bounds of the model.                                                    *)
(***************************************************************************)
MaxQueries == 3
MaxMinorDec == 99
MaxGuidChars == 34
MaxRaceRuns == 3

(***************************************************************************)
(* Program constants.                                                      *)
(***************************************************************************)
TOKEN_MAJOR == 0
TOKEN_MINOR == 1
TOKEN_MINOR_REL == 1
TOKEN_MINOR_PATCH == 2
TOKEN_HASH == 3
AUX_MAX_RELEASE == 10066329
AUX_HASH_LEN == 6
AUX_MAX_PATCH == 127
BCD_BASE == 16
IPMI_DEVID_STATE_SHIFT == 7
bmc_guid_len == 16
INT_MAX == 2147483647
npos == -1

(***************************************************************************)
(* Integer helpers.                                                        *)
(***************************************************************************)
SetMin(S) == CHOOSE m \in S : \A n \in S : m <= n

MinOf(a, b) == IF a < b THEN a ELSE b

\* conversion of an int to uint8_t
ToU8(v) == v % 256

\* conversion of an int to plain char: signed or unsigned with the build
ToChar(v) ==
    LET b == v % 256
    IN IF char_is_signed /\ b >= 128 THEN b - 256 ELSE b

\* C integer division and remainder truncate toward zero
CDiv(a, b) == IF a >= 0 THEN a \div b ELSE -((-a) \div b)

CRem(a, b) == a - b * CDiv(a, b)

\* x & ~(1 << IPMI_DEVID_STATE_SHIFT) on the low byte of an int
MaskFw1(v) == v % (2 ^ IPMI_DEVID_STATE_SHIFT)

\* the four bytes of htobe32(v) in memory order, most significant first
Be32Bytes(v) ==
    << (v \div 16777216) % 256, (v \div 65536) % 256, (v \div 256) % 256, v % 256 >>

\* the four bytes of htobe32(v << 8), the shift being one of a uint32_t
Be32Shl8Bytes(v) ==
    << (v \div 65536) % 256, (v \div 256) % 256, v % 256, 0 >>

(***************************************************************************)
(* std::string operations.                                                 *)
(***************************************************************************)
At(s, i) == s[i + 1]

\* s.substr(pos, n)
substr(s, pos, n) == SubSeq(s, pos + 1, MinOf(pos + n, Len(s)))

\* s.substr(pos)
substr_from(s, pos) == SubSeq(s, pos + 1, Len(s))

\* s.find_first_of(chars, j)
find_first_of(s, chars, j) ==
    LET hits == {k \in j..(Len(s) - 1) : At(s, k) \in chars}
    IN IF hits = {} THEN npos ELSE SetMin(hits)

\* s.find(pat) != npos
contains(s, pat) ==
    \E i \in 0..(Len(s) - Len(pat)) : SubSeq(s, i + 1, i + Len(pat)) = pat

HexDigits == <<"0", "1", "2", "3", "4", "5", "6", "7", "8", "9",
               "a", "b", "c", "d", "e", "f">>

IsDigit(c, base) == \E i \in 1..base : HexDigits[i] = c

DigitVal(c) == (CHOOSE i \in 1..16 : HexDigits[i] = c) - 1

\* number of leading characters of s that are digits in the base
DigitPrefixLen(s, base) ==
    LET bad == {k \in 1..Len(s) : ~IsDigit(s[k], base)}
    IN IF bad = {} THEN Len(s) ELSE SetMin(bad) - 1

\* value of digits k..n of s on top of acc; -1 once it passes INT_MAX
RECURSIVE Accumulate(_, _, _, _, _)
Accumulate(s, k, n, base, acc) ==
    IF k > n THEN acc
    ELSE LET d == DigitVal(s[k])
         IN IF acc > (INT_MAX - d) \div base THEN -1
            ELSE Accumulate(s, k + 1, n, base, acc * base + d)

\* std::stoi(s, 0, base): reads the longest digit prefix; throws
\* std::invalid_argument when there is none and std::out_of_range when the
\* value does not fit an int.  (Texts here hold no sign, blank or 'x'.)
stoi(s, base) ==
    LET n == DigitPrefixLen(s, base)
        v == Accumulate(s, 1, n, base, 0)
    IN IF n = 0 THEN [ex |-> "invalid_argument", val |-> 0]
       ELSE IF v < 0 THEN [ex |-> "out_of_range", val |-> 0]
       ELSE [ex |-> "none", val |-> v]

\* tokenize(str, token), from position j on
RECURSIVE tokenize_from(_, _, _)
tokenize_from(str, token, j) ==
    IF j >= Len(str) THEN << >>
    ELSE LET f == find_first_of(str, token, j)
             k == IF f = npos THEN Len(str) ELSE f
         IN << substr(str, j, k - j) >> \o tokenize_from(str, token, k + 1)

tokenize(str, token) == tokenize_from(str, token, 0)

(***************************************************************************)
(* convert_version.  Each std::stoi call of the function is one "read_"    *)
(* operator; its result is [ex, val], ex being the exception thrown        *)
(* ("none" when none).  The calls are made in source order and the first   *)
(* one that throws ends the function, leaving the caller's rev_t as        *)
(* written up to there.                                                    *)
(***************************************************************************)
ZeroAux == <<0, 0, 0, 0>>

ZeroRev == [major |-> 0, minor |-> 0, aux |-> ZeroAux]

DirtyWord == <<"d", "i", "r", "t", "y">>

\* a std::stoi call that is not made
NoNumber == [ex |-> "none", val |-> 0]

\* mutant: the 'v' is cut off only where it begins the text
cut_v_leading(p) ==
    IF p # << >> /\ p[1] = "v" THEN substr_from(p, 1) ELSE p

\* s after "cut off the optional 'v'"
cut_v(p) ==
    LET location == find_first_of(p, {"v"}, 0)
    IN IF location # npos THEN substr_from(p, location + 1) ELSE p

\* std::stoi(tokens[TOKEN_MAJOR], 0, BCD_BASE), if (!tokens.empty())
read_major(tokens) ==
    IF tokens # << >> THEN stoi(At(tokens, TOKEN_MAJOR), BCD_BASE) ELSE NoNumber

\* std::stoi(tokens[TOKEN_MINOR], 0, BCD_BASE), if (tokens.size() > TOKEN_MINOR)
read_minor(tokens) ==
    IF Len(tokens) > TOKEN_MINOR THEN stoi(At(tokens, TOKEN_MINOR), BCD_BASE)
    ELSE NoNumber

\* minortok = tokenize(tokens[TOKEN_MINOR], "rp")
minor_tokens(tokens) ==
    IF Len(tokens) > TOKEN_MINOR
    THEN tokenize(At(tokens, TOKEN_MINOR), {"r", "p"})
    ELSE << >>

\* std::stoi(minortok[TOKEN_MINOR_REL], 0, BCD_BASE)
read_release(minortok) ==
    IF Len(minortok) > TOKEN_MINOR_REL
    THEN stoi(At(minortok, TOKEN_MINOR_REL), BCD_BASE)
    ELSE NoNumber

\* std::stoi(minortok[TOKEN_MINOR_PATCH], 0, 10)
read_patch(minortok) ==
    IF Len(minortok) > TOKEN_MINOR_PATCH
    THEN stoi(At(minortok, TOKEN_MINOR_PATCH), 10)
    ELSE NoNumber

\* a token's first character; tokens[i][0] of an empty token is '\0'
first_char(tok) == IF tok = << >> THEN "NUL" ELSE tok[1]

\* hashstr after the search for "the first token that looks like a git hash"
hash_search(tokens) ==
    LET found == {i \in TOKEN_HASH..(Len(tokens) - 1) : first_char(At(tokens, i)) = "g"}
    IN IF found = {} THEN << >>
       ELSE substr(At(tokens, SetMin(found)), 1, AUX_HASH_LEN)

\* mutant: the git hash is encoded in the release format too
hash_wanted_always(tokens, has_release) == Len(tokens) > TOKEN_HASH

\* if (!has_release && tokens.size() > TOKEN_HASH)
hash_wanted(tokens, has_release) == ~has_release /\ Len(tokens) > TOKEN_HASH

\* std::stoi(hashstr, 0, 16)
read_hash(tokens, has_release) ==
    IF hash_wanted(tokens, has_release) THEN stoi(hash_search(tokens), 16)
    ELSE NoNumber

\* the release number as stored: (rel > AUX_MAX_RELEASE) ? AUX_MAX_RELEASE : rel
clamp_release(rel) == IF rel > AUX_MAX_RELEASE THEN AUX_MAX_RELEASE ELSE rel

\* aux byte 3 as the patch level sets it: patchlevel << AUX_REL_PATCH_SHIFT
patch_byte(pl) == ToU8(ToU8(IF pl > AUX_MAX_PATCH THEN AUX_MAX_PATCH ELSE pl) * 2)

\* mutant: the dirty flag is assigned to aux byte 3 instead of OR-ed into it
or_dirty_assigned(aux, dirty) ==
    IF dirty THEN [aux EXCEPT ![4] = 1] ELSE aux

\* aux[AUX_DIRTY_BYTE] |= dirty << AUX_DIRTY_SHIFT
or_dirty(aux, dirty) ==
    IF dirty THEN [aux EXCEPT ![4] = (aux[4] \div 2) * 2 + 1] ELSE aux

\* the position (1..5) of the first std::stoi call that throws, or 6
first_thrown(exs) ==
    LET bad == {i \in 1..Len(exs) : exs[i] # "none"}
    IN IF bad = {} THEN Len(exs) + 1 ELSE SetMin(bad)

\* the body of "if (!s.empty())": [ex, r, rev]
convert_tokens(s, tokens, minortok) ==
    LET has_release == Len(minortok) > TOKEN_MINOR_REL
        has_patch == Len(minortok) > TOKEN_MINOR_PATCH
        maj == read_major(tokens)
        min == read_minor(tokens)
        rel == read_release(minortok)
        pat == read_patch(minortok)
        hsh == read_hash(tokens, has_release)
        exs == << maj.ex, min.ex, rel.ex, pat.ex, hsh.ex >>
        k == first_thrown(exs)
        aux_rel == IF k > 3 /\ has_release
                   THEN Be32Shl8Bytes(clamp_release(rel.val)) ELSE ZeroAux
        aux_pat == IF k > 4 /\ has_patch
                   THEN << aux_rel[1], aux_rel[2], aux_rel[3], patch_byte(pat.val) >>
                   ELSE aux_rel
        aux_hash == IF k > 5 /\ hash_wanted(tokens, has_release)
                    THEN Be32Shl8Bytes(hsh.val) ELSE aux_pat
        rev == [major |-> IF k > 1 THEN ToChar(maj.val) ELSE 0,
                minor |-> IF k > 2 THEN ToChar(min.val) ELSE 0,
                aux |-> or_dirty(aux_hash, k > 5 /\ contains(s, DirtyWord))]
    IN [ex |-> IF k > 5 THEN "none" ELSE exs[k], r |-> 0, rev |-> rev]

\* convert_version on the text left after the 'v' was cut off
convert_cut(s) ==
    IF s = << >> THEN [ex |-> "none", r |-> -1, rev |-> ZeroRev]
    ELSE convert_tokens(s, tokenize(s, {".", "-"}),
                        minor_tokens(tokenize(s, {".", "-"})))

\* convert_version(p, &rev): [ex, r, rev]; r is the value returned (-1 or 0)
\* when nothing was thrown
convert_version(p) == convert_cut(cut_v(p))

(***************************************************************************)
(* ipmi_app_get_device_id.                                                 *)
(***************************************************************************)
ZeroDevId ==
    [id |-> 0, revision |-> 0, fw |-> <<0, 0>>, ipmi_ver |-> 0,
     addn_dev_support |-> 0, manuf_id |-> <<0, 0, 0>>, prod_id |-> <<0, 0>>,
     aux |-> ZeroAux]

\* the packed struct as the bytes memcpy copies
Pack(d) ==
    << d.id, d.revision, d.fw[1], d.fw[2], d.ipmi_ver, d.addn_dev_support,
       d.manuf_id[1], d.manuf_id[2], d.manuf_id[3], d.prod_id[1], d.prod_id[2],
       d.aux[1], d.aux[2], d.aux[3], d.aux[4] >>

\* sizeof(dev_id)
SizeofDevId == Len(Pack(ZeroDevId))

\* mutant: the initialization block is entered on every query
NeedInit_Always(initialized) == TRUE

\* if (!dev_id_initialized)
NeedInit(initialized) == ~initialized

\* the try block: [r, rev] as the handler's locals are after it
GetRevision(ver) ==
    IF ~ver.ok THEN [r |-> -1, rev |-> ZeroRev]
    ELSE LET cv == convert_version(ver.text)
         IN [r |-> IF cv.ex # "none" THEN -1 ELSE cv.r, rev |-> cv.rev]

\* dev_id.fw[0], dev_id.fw[1] and dev_id.aux from the parsed revision
StoreRevision(d, rev) ==
    LET minor == IF rev.minor > 99 THEN 99 ELSE rev.minor
    IN [d EXCEPT !.fw = << MaskFw1(rev.major),
                           ToU8(CRem(minor, 10) + CDiv(minor, 10) * 16) >>,
                 !.aux = rev.aux]

\* the fields read from dev_id.json
ApplyConfig(d, data) ==
    [d EXCEPT !.id = ToU8(data.id),
              !.revision = ToU8(data.revision),
              !.addn_dev_support = ToU8(data.addn_dev_support),
              !.manuf_id = << ToU8(data.manuf_id), ToU8(data.manuf_id \div 256),
                              ToU8(data.manuf_id \div 65536) >>,
              !.prod_id = << ToU8(data.prod_id), ToU8(data.prod_id \div 256) >>,
              !.aux = IF data.aux # 0 THEN Be32Bytes(data.aux) ELSE d.aux]

\* mutant: dev_id_initialized is never set
ReadConfig_NoLatch(d, cfg) ==
    IF cfg.kind = "ok"
    THEN [dev |-> ApplyConfig(d, cfg.data), initialized |-> FALSE, rc |-> "IPMI_CC_OK"]
    ELSE [dev |-> d, initialized |-> FALSE, rc |-> "IPMI_CC_UNSPECIFIED_ERROR"]

\* mutant: a dev_id.json that cannot be read leaves rc as it was
ReadConfig_ErrorIgnored(d, cfg) ==
    IF cfg.kind = "ok"
    THEN [dev |-> ApplyConfig(d, cfg.data), initialized |-> TRUE, rc |-> "IPMI_CC_OK"]
    ELSE [dev |-> d, initialized |-> FALSE, rc |-> "IPMI_CC_OK"]

\* opening and parsing dev_id.json: [dev, initialized, rc]
ReadConfig(d, cfg) ==
    IF cfg.kind = "ok"
    THEN [dev |-> ApplyConfig(d, cfg.data), initialized |-> TRUE, rc |-> "IPMI_CC_OK"]
    ELSE [dev |-> d, initialized |-> FALSE, rc |-> "IPMI_CC_UNSPECIFIED_ERROR"]

\* the initialization block, got being the try block's [r, rev]:
\* [dev, initialized, rc, r]
InitBlock(d, got, cfg) ==
    LET d1 == IF got.r >= 0 THEN StoreRevision(d, got.rev) ELSE d
        read == ReadConfig([d1 EXCEPT !.ipmi_ver = 2], cfg)
    IN [dev |-> read.dev, initialized |-> read.initialized, rc |-> read.rc,
        r |-> got.r]

\* mutant: the availability bit is not cleared before it is set
ClearAvailability_Missing(d) == d

\* dev_id.fw[0] &= IPMI_DEVID_FW1_MASK
ClearAvailability(d) == [d EXCEPT !.fw[1] = MaskFw1(d.fw[1])]

\* dev_id.fw[0] |= (1 << IPMI_DEVID_STATE_SHIFT) when the BMC is not ready
SetAvailability(d, ready) ==
    IF ready THEN d
    ELSE [d EXCEPT !.fw[1] = IF (@ \div 128) % 2 = 1 THEN @ ELSE @ + 128]

(***************************************************************************)
(* What the collaborators of the handler can answer.                       *)
(***************************************************************************)
QueryVersions ==
    { <<"v", "0", ".", "6", "-", "1", "9", "-", "g", "f", "3", "6", "3", "f", "6", "1", "-", "d", "i", "r", "t", "y">>,
      <<"v", "2", ".", "2", "r", "1", "8", "0", "6", "0", "8", "p", "1", "0", "-", "g", "6", "5", "e", "d", "f", "7", "d", "-", "d", "i", "r", "t", "y">>,
      <<"v", "8", "1", ".", "1", "0">>,
      <<"v", "1", ".", "2", ".", "3", "-", "4">>,
      <<"v">> }

\* getActiveSoftwareVersionInfo: a version text, or InternalFailure
VersionOutcomes ==
    {[ok |-> FALSE, text |-> << >>]} \cup {[ok |-> TRUE, text |-> t] : t \in QueryVersions}

NoFields ==
    [id |-> 0, revision |-> 0, addn_dev_support |-> 0, manuf_id |-> 0,
     prod_id |-> 0, aux |-> 0]

\* dev_id.json: missing, not JSON, or an object of integer fields
ConfigOutcomes ==
    { [kind |-> "nofile", data |-> NoFields],
      [kind |-> "badjson", data |-> NoFields],
      [kind |-> "ok", data |-> NoFields],
      [kind |-> "ok", data |-> [id |-> 32, revision |-> 128, addn_dev_support |-> 141,
                                manuf_id |-> 42817, prod_id |-> 16706, aux |-> 0]],
      [kind |-> "ok", data |-> [id |-> 32, revision |-> 128, addn_dev_support |-> 141,
                                manuf_id |-> 42817, prod_id |-> 16706,
                                aux |-> 16909060]] }

\* getCurrentBmcState: true, false, or an exception of the D-Bus calls
StateOutcomes == {"ready", "notready", "fail"}

\* the record of a query that consulted neither source
NotAsked ==
    [ver |-> [ok |-> FALSE, text |-> << >>], cfg |-> [kind |-> "none", data |-> NoFields],
     st |-> "none", consulted |-> FALSE, r |-> -1]

\* history of the queries made, kept for stating properties:
\*   cfg_ok           some query read and parsed dev_id.json successfully
\*   cfg_ok_before    the same, of the queries before the last one
\*   retried          some query after the first entered the initialization block
\*   init_record      the record built by the query that completed initialization
\*   init_r           that query's r
\*   prev_response, prev_st   the response and the state answer of the query
\*                    before the last one
\*   prev_initialized that query returned with the record initialized
NoHistory ==
    [cfg_ok_before |-> FALSE, cfg_ok |-> FALSE, retried |-> FALSE,
     init_record |-> << >>, init_r |-> -1,
     prev_response |-> << >>, prev_st |-> "none", prev_initialized |-> FALSE]

DevInit ==
    /\ dev_id = ZeroDevId
    /\ dev_id_initialized = FALSE
    /\ response = << >>
    /\ data_len = 0
    /\ rc = "none"
    /\ outcome = "none"
    /\ queries = 0
    /\ last = NotAsked
    /\ hist = NoHistory

\* the handler's locals r and rev when the initialization block is entered
\* (after its try block) and when it is skipped (as declared)
RevisionLocals(initialized, ver) ==
    IF NeedInit(initialized) THEN GetRevision(ver) ELSE [r |-> -1, rev |-> ZeroRev]

\* the handler up to "Pack the actual response": [dev, initialized, rc, r]
BuildRecord(d, initialized, got, cfg, st) ==
    LET ib == IF NeedInit(initialized) THEN InitBlock(d, got, cfg)
              ELSE [dev |-> d, initialized |-> initialized, rc |-> "IPMI_CC_OK",
                    r |-> got.r]
    IN [dev |-> IF st = "fail" THEN ClearAvailability(ib.dev)
                ELSE SetAvailability(ClearAvailability(ib.dev), st = "ready"),
        initialized |-> ib.initialized, rc |-> ib.rc, r |-> ib.r]

\* what a query saw of its sources: a source that was not consulted shows nothing
Seen(consulted, ver, cfg, st, r) ==
    [ver |-> IF consulted THEN ver ELSE NotAsked.ver,
     cfg |-> IF consulted THEN cfg ELSE NotAsked.cfg,
     st |-> st, consulted |-> consulted, r |-> r]

\* one Get Device ID query, whose sources would answer ver, cfg and st
GetDeviceId(ver, cfg, st) ==
    /\ queries < MaxQueries
    /\ \E got \in {RevisionLocals(dev_id_initialized, ver)} :
       \E b \in {BuildRecord(dev_id, dev_id_initialized, got, cfg, st)} :
          /\ queries' = queries + 1
          /\ data_len' = SizeofDevId
          /\ dev_id' = b.dev
          /\ dev_id_initialized' = b.initialized
          /\ response' = IF st = "fail" THEN << >> ELSE Pack(b.dev)
          /\ rc' = IF st = "fail" THEN "none" ELSE b.rc
          /\ outcome' = IF st = "fail" THEN "exception" ELSE "return"
          /\ last' = Seen(NeedInit(dev_id_initialized), ver, cfg, st, b.r)
          /\ hist' = [cfg_ok_before |-> hist.cfg_ok,
                      cfg_ok |-> hist.cfg_ok
                                 \/ (NeedInit(dev_id_initialized) /\ cfg.kind = "ok"),
                      retried |-> hist.retried
                                  \/ (NeedInit(dev_id_initialized) /\ queries >= 1),
                      init_record |-> IF ~dev_id_initialized /\ b.initialized
                                      THEN Pack(b.dev) ELSE hist.init_record,
                      init_r |-> IF ~dev_id_initialized /\ b.initialized
                                 THEN b.r ELSE hist.init_r,
                      prev_response |-> response,
                      prev_st |-> last.st,
                      prev_initialized |-> dev_id_initialized /\ outcome = "return"]
          /\ UNCHANGED <<char_is_signed, cvVars, guidVars, raceVars>>

(***************************************************************************)
(* convert_version and the revision bytes of the Device ID record, applied *)
(* to one version text.                                                    *)
(***************************************************************************)
Digit(n) == << HexDigits[n + 1] >>

\* the decimal numeral of n
RECURSIVE Dec(_)
Dec(n) == IF n < 10 THEN Digit(n) ELSE Dec(n \div 10) \o Digit(n % 10)

FixedTexts ==
    { << >>,
      <<"v">>,
      <<"1">>,
      <<"v", "1">>,
      <<"v", ".">>,
      <<"v", "1", ".">>,
      <<"1", ".", "2">>,
      <<"d", "e", "v", "-", "1", ".", "2">>,
      <<"1", ".", "2", "v">>,
      <<"v", "1", "-", "d", "i", "r", "t", "y">>,
      <<"v", "1", ".", "2", "-", "3", "-", "d", "i", "r", "t", "y">>,
      <<"v", "0", ".", "6", "-", "1", "9", "-", "g", "f", "3", "6", "3", "f", "6", "1", "-", "d", "i", "r", "t", "y">>,
      <<"v", "1", ".", "9", "9", ".", "1", "0", "-", "1", "1", "3", "-", "g", "6", "5", "e", "d", "f", "7", "d", "-", "r", "3", "-", "0", "-", "g", "9", "e", "4", "f", "7", "1", "5", "-", "d", "i", "r", "t", "y">>,
      <<"v", "2", ".", "2", "r", "1", "8", "0", "6", "0", "8", "p", "1", "0", "-", "g", "6", "5", "e", "d", "f", "7", "d", "-", "d", "i", "r", "t", "y">>,
      <<"v", "1", ".", "2", ".", "3", "-", "4">>,
      <<"v", "1", ".", "1", "0">>,
      <<"v", "v", "1", ".", "2">>,
      <<"g", ".", "1">>,
      <<"d", "i", "r", "t", "y", "-", "v", "1", ".", "2">>,
      <<"d", "i", "r", "t", "y", "-", "v", "2", ".", "2", "r", "1", "8", "p", "3", "-", "d", "i", "r", "t", "y">>,
      <<"v", "1", ".", "2", ".", ".", "-", "g", "1", "2">> }

Prefixes == { << >>, <<"v">> }

Majors == { <<"0">>,
          <<"1">>,
          <<"7", "f">>,
          <<"8", "1">>,
          <<"1", "f", "f">> }

DecMinors == {Dec(d) : d \in 0..MaxMinorDec}

ReleaseMinors ==
    { <<"6">>,
      <<"9", "9">>,
      <<"2", "r", "1", "8", "0", "6", "0", "8", "p", "1", "0">>,
      <<"2", "r", "1", "8">>,
      <<"2", "r", "f", "f", "f", "f", "f", "f", "p", "2", "0", "0">>,
      <<"2", "r">>,
      <<"2", "r", "p", "1", "0">>,
      <<"2", "r", "1", "8", "p">>,
      <<"2", "r", "9", "1", "2", "3", "4", "5", "6", "7", "8">>,
      <<"2", "r", "1", "8", "p", "7", "z">>,
      <<"2", "r", "1", "8", "p", "z">>,
      <<"2", "r", "g", "1">>,
      <<"f", "0", "r", "1", "p", "1", "r", "5">> }

DecTails == { << >>,
            <<"-", "1", "9", "-", "g", "f", "3", "6", "3", "f", "6", "1", "-", "d", "i", "r", "t", "y">> }

Tails ==
    { << >>,
      <<"-", "d", "i", "r", "t", "y">>,
      <<"-", "1", "9", "-", "g", "f", "3", "6", "3", "f", "6", "1">>,
      <<"-", "1", "9", "-", "g", "f", "3", "6", "3", "f", "6", "1", "-", "d", "i", "r", "t", "y">>,
      <<".", "1", "0", "-", "1", "1", "3", "-", "g", "6", "5", "e", "d", "f", "7", "d", "-", "r", "3", "-", "0", "-", "g", "9", "e", "4", "f", "7", "1", "5", "-", "d", "i", "r", "t", "y">>,
      <<".", "3", "-", "4">>,
      <<"-", "g", "6", "5", "e", "d", "f", "7", "d", "-", "d", "i", "r", "t", "y">>,
      <<".", "3", "-", "4", "-", "g", "1", "2">>,
      <<".", "3", "-", "-", "g", "1", "z", "2">>,
      <<".", "3", "-", "4", "-", "g", "z", "1">>,
      <<".", "3", "-", "4", "-", "g">>,
      <<".", "3", "-", "g", "1", "-", "4", "-", "5", "-", "g", "a", "b", "c", "d", "e", "f", "0">> }

VersionTexts ==
    FixedTexts
    \cup {<<"v", "1", ".">> \o m \o t : m \in DecMinors, t \in DecTails}
    \cup {p \o j \o <<".">> \o m \o t :
             p \in Prefixes, j \in Majors, m \in ReleaseMinors, t \in Tails}

CvIdle ==
    /\ cv_text = << >>
    /\ cv_pc = "idle"
    /\ cv_out = [ex |-> "none", r |-> -1, rev |-> ZeroRev]
    /\ cv_dev = ZeroDevId

CvInit ==
    /\ cv_text \in VersionTexts
    /\ cv_pc = "input"
    /\ cv_out = [ex |-> "none", r |-> -1, rev |-> ZeroRev]
    /\ cv_dev = ZeroDevId

\* convert_version on cv_text, and the record the first query's initialization
\* block builds from it when dev_id.json is an empty object
ConvertVersion ==
    /\ cv_pc = "input"
    /\ cv_pc' = "done"
    /\ cv_out' = convert_version(cv_text)
    /\ \E got \in {GetRevision([ok |-> TRUE, text |-> cv_text])} :
          cv_dev' = InitBlock(ZeroDevId, got, [kind |-> "ok", data |-> NoFields]).dev
    /\ UNCHANGED <<char_is_signed, cv_text, devVars, guidVars, raceVars>>

(***************************************************************************)
(* ipmi_app_get_sys_guid, applied to one value of the UUID property.       *)
(***************************************************************************)
\* guidProp after the "-" characters are erased
erase_hyphens(text) == SelectSeq(text, LAMBDA c : c # "-")

\* the validation of the UUID data passes
guid_length_ok(guidPropLen) ==
    ~((guidPropLen <= 0) \/ ((guidPropLen \div 2) # bmc_guid_len))

\* mutant: the write position is not moved after a byte is stored
dec_size_t_missing(respLoc) == respLoc

\* respLoc-- on a size_t: below 0 it wraps to SIZE_MAX, written -1 here
dec_size_t(respLoc) == IF respLoc <= 0 THEN -1 ELSE respLoc - 1

\* the conversion loop from position i with write position respLoc.
\* g is [ex, buf, writes]: the exception thrown, respGuid, and the indexes
\* written so far (-1 for one past the wraparound, outside the array).
\* The test respLoc >= 0 of the loop is always true of a size_t.
RECURSIVE guid_loop(_, _, _, _)
guid_loop(guidProp, i, respLoc, g) ==
    IF ~(i < Len(guidProp)) THEN g
    ELSE LET n == stoi(substr(guidProp, i, 2), 16)
         IN IF n.ex # "none" THEN [g EXCEPT !.ex = n.ex]
            ELSE guid_loop(guidProp, i + 2, dec_size_t(respLoc),
                           [g EXCEPT !.buf = IF respLoc \in 0..(bmc_guid_len - 1)
                                             THEN [@ EXCEPT ![respLoc + 1] = ToU8(n.val)]
                                             ELSE @,
                                     !.writes = Append(@, respLoc)])

\* respGuid before the loop: not initialised, "?" in every place
FreshGuidBuf == [k \in 1..bmc_guid_len |-> "?"]

\* src: what the property source answered; data_len "unset": *data_len was
\* not assigned; resp: the bytes copied to the response buffer
NoGuidResult ==
    [src |-> "none", outcome |-> "none", rc |-> "none", data_len |-> "unset",
     resp |-> << >>, writes |-> << >>]

\* the handler on property outcome src ("ok": guid_text is returned) and, when
\* a write falls outside respGuid, on what that undefined behaviour does
SysGuidResult(src, text, ub) ==
    LET guidProp == erase_hyphens(text)
    IN IF src # "ok"
       THEN [NoGuidResult EXCEPT !.outcome = "return", !.rc = "IPMI_CC_UNSPECIFIED_ERROR"]
       ELSE IF ~guid_length_ok(Len(guidProp))
       THEN [NoGuidResult EXCEPT !.outcome = "return", !.rc = "IPMI_CC_RESPONSE_ERROR"]
       ELSE CHOOSE res \in
              { IF g.ex # "none"
                THEN [NoGuidResult EXCEPT !.outcome = "exception", !.writes = g.writes]
                ELSE IF (\E k \in 1..Len(g.writes) : g.writes[k] \notin 0..(bmc_guid_len - 1))
                        /\ ub = "crash"
                THEN [NoGuidResult EXCEPT !.outcome = "crash", !.writes = g.writes]
                ELSE [src |-> "ok", outcome |-> "return", rc |-> "IPMI_CC_OK",
                      data_len |-> bmc_guid_len, resp |-> g.buf, writes |-> g.writes]
                : g \in { guid_loop(guidProp, 0, bmc_guid_len - 1,
                                    [ex |-> "none", buf |-> FreshGuidBuf, writes |-> << >>]) } }
              : TRUE

\* the k-th hex character (from 0) of the texts of pattern m
GuidChar(k, m) == HexDigits[((k * 7 + (k \div 16) + m) % 16) + 1]

\* the hyphens a layout puts before the k-th hex character of n
HyphensBefore(layout, k, n) ==
    CASE layout = "none" -> << >>
      [] layout = "canonical" -> IF k \in {8, 12, 16, 20} THEN <<"-">> ELSE << >>
      [] layout = "odd" -> IF k = 0 THEN <<"-">>
                           ELSE IF k = 3 THEN <<"-", "-">>
                           ELSE IF k = n - 1 THEN <<"-">> ELSE << >>

\* the hyphens a layout puts after the last hex character
HyphensAfter(layout) == IF layout = "odd" THEN <<"-">> ELSE << >>

RECURSIVE GuidTextFrom(_, _, _, _)
GuidTextFrom(k, n, layout, m) ==
    IF k >= n THEN HyphensAfter(layout)
    ELSE HyphensBefore(layout, k, n) \o << GuidChar(k, m) >>
         \o GuidTextFrom(k + 1, n, layout, m)

GuidLayouts == {"none", "canonical", "odd"}

GuidPatterns == {0, 5}

\* the UUID of the comment "UUID is in RFC4122 format"
ExampleGuid ==
    <<"6", "1", "a", "3", "9", "5", "2", "3", "-", "7", "8", "f", "2", "-",
      "1", "1", "e", "5", "-", "9", "8", "6", "2", "-",
      "e", "6", "4", "0", "2", "c", "f", "c", "3", "2", "2", "3">>

\* UUID property values of 0..MaxGuidChars hex characters
GuidTexts ==
    {GuidTextFrom(0, n, layout, m) :
        n \in 0..MaxGuidChars, layout \in GuidLayouts, m \in GuidPatterns}
    \cup {ExampleGuid}

GuidIdle ==
    /\ guid_text = << >>
    /\ guid_pc = "idle"
    /\ guid_out = NoGuidResult
    /\ devguid_out = NoGuidResult

GuidInit ==
    /\ guid_text \in GuidTexts
    /\ guid_pc = "input"
    /\ guid_out = NoGuidResult
    /\ devguid_out = NoGuidResult

\* one Get System GUID query
GetSysGuid(src, ub) ==
    /\ guid_pc = "input"
    /\ guid_pc' = "done"
    /\ guid_out' = [SysGuidResult(src, guid_text, ub) EXCEPT !.src = src]
    /\ UNCHANGED <<char_is_signed, guid_text, devguid_out, devVars, cvVars, raceVars>>

(***************************************************************************)
(* ipmi_app_get_device_guid, applied to one value of the uuid property.    *)
(***************************************************************************)
\* the octet strings strtok_r(uuid, "-", ...) returns one after another: the
\* non-empty runs of characters between hyphens
strtok_octets(uuid) == SelectSeq(tokenize(uuid, {"-"}), LAMBDA tok : tok # << >>)

\* strtoul(tmp_array, NULL, 16) truncated to the one byte memcpy copies; 0
\* when tmp_array does not begin with a hex digit
strtoul_byte(tmp_array) == ToU8(stoi(tmp_array, 16).val)

\* the for loop over one octet string from pair i on.  g is [loc, buf,
\* writes]: resp_loc (an int, negative once it passes 0), resp_uuid and the
\* indexes written so far
RECURSIVE octet_loop(_, _, _, _)
octet_loop(id_octet, i, tmp_size, g) ==
    IF ~(i < tmp_size) THEN g
    ELSE octet_loop(id_octet, i + 1, tmp_size,
                    [loc |-> g.loc - 1,
                     buf |-> IF g.loc \in 0..(bmc_guid_len - 1)
                             THEN [g.buf EXCEPT ![g.loc + 1] =
                                                   strtoul_byte(substr(id_octet, 2 * i, 2))]
                             ELSE g.buf,
                     writes |-> Append(g.writes, g.loc)])

\* the while loop over the octet strings from the k-th (from 1) on
RECURSIVE uuid_loop(_, _, _)
uuid_loop(octets, k, g) ==
    IF k > Len(octets) THEN g
    ELSE uuid_loop(octets, k + 1,
                   CHOOSE h \in {octet_loop(octets[k], 0, Len(octets[k]) \div 2, g)} : TRUE)

\* what the D-Bus calls of the handler can do: "no_service": mapper_get_service
\* fails; "call_failed": sd_bus_call_method fails; "read_failed":
\* sd_bus_message_read fails; "ok": guid_text is read
DevGuidSources == {"ok", "no_service", "call_failed", "read_failed"}

\* the handler before "Traverse the UUID": *data_len = 0
NoDevGuidResult == [NoGuidResult EXCEPT !.outcome = "return", !.data_len = 0]

\* the handler on source outcome src and, when a write falls outside
\* resp_uuid, on what that undefined behaviour does
DevGuidResult(src, text, ub) ==
    CASE src = "no_service" -> [NoDevGuidResult EXCEPT !.rc = "IPMI_CC_OK"]
      [] src = "call_failed" -> [NoDevGuidResult EXCEPT !.rc = "IPMI_CC_UNSPECIFIED_ERROR"]
      [] src = "read_failed" -> [NoDevGuidResult EXCEPT !.rc = "IPMI_CC_RESPONSE_ERROR"]
      [] src = "ok" ->
           IF strtok_octets(text) = << >>
           THEN [NoDevGuidResult EXCEPT !.rc = "IPMI_CC_RESPONSE_ERROR"]
           ELSE CHOOSE res \in
                  { IF (\E k \in 1..Len(g.writes) : g.writes[k] \notin 0..(bmc_guid_len - 1))
                       /\ ub = "crash"
                    THEN [NoGuidResult EXCEPT !.outcome = "crash", !.data_len = 0,
                                              !.writes = g.writes]
                    ELSE [src |-> "ok", outcome |-> "return", rc |-> "IPMI_CC_OK",
                          data_len |-> bmc_guid_len, resp |-> g.buf, writes |-> g.writes]
                    : g \in { uuid_loop(strtok_octets(text), 1,
                                        [loc |-> bmc_guid_len - 1, buf |-> FreshGuidBuf,
                                         writes |-> << >>]) } }
                  : TRUE

\* one Get Device GUID query
GetDeviceGuid(src, ub) ==
    /\ guid_pc = "input"
    /\ guid_pc' = "done"
    /\ devguid_out' = [DevGuidResult(src, guid_text, ub) EXCEPT !.src = src]
    /\ UNCHANGED <<char_is_signed, guid_text, guid_out, devVars, cvVars, raceVars>>


(***************************************************************************)
(* ipmi_app_get_device_id run by two invocations at a time, one statement  *)
(* of one of them per step.  dev_id and dev_id_initialized are the statics *)
(* they share; r, rev, the parsed JSON, the state answer and rc are locals *)
(* of each.  The handler takes no lock.                                    *)
(***************************************************************************)
Invocations == {"A", "B"}

\* the statements of the initialization block that follow the try block, in
\* source order
StoreSteps == <<"fw0", "fw1", "aux">>

ConfigSteps == <<"id", "revision", "addn_dev_support", "manuf_id2", "manuf_id1",
                 "manuf_id0", "prod_id1", "prod_id0", "cfg_aux", "latch">>

\* an invocation at one of these is inside the initialization block
InBlock == {"version", "ipmi_ver", "config"}
           \cup {StoreSteps[i] : i \in 1..Len(StoreSteps)}
           \cup {ConfigSteps[i] : i \in 1..Len(ConfigSteps)}

\* an invocation at one of these has written some of the static fields of
\* its initialization and not yet all of them
PartlyWritten == InBlock \ {"version", "fw0"}

\* an invocation at one of these has cleared bit 7 of dev_id.fw[0] and is
\* about to set it
ClearedNotSet == {"set"}

RaceVersions ==
    { [ok |-> TRUE, text |-> <<"v", "8", "1", ".", "1", "0">>],
      [ok |-> FALSE, text |-> << >>] }

RaceConfigs ==
    { [kind |-> "nofile", data |-> NoFields],
      [kind |-> "ok", data |-> [id |-> 32, revision |-> 128, addn_dev_support |-> 141,
                                manuf_id |-> 42817, prod_id |-> 16706, aux |-> 0]] }

RaceStates == {"ready", "notready"}

\* the locals as declared: rc = IPMI_CC_OK, r = -1, rev = {0}
FreshLocals ==
    [rc |-> "IPMI_CC_OK", r |-> -1, rev |-> ZeroRev, data |-> NoFields, st |-> "none"]

RaceIdle ==
    /\ race_pc = [t \in Invocations |-> "idle"]
    /\ race_loc = [t \in Invocations |-> FreshLocals]
    /\ race_resp = [t \in Invocations |-> << >>]
    /\ race_seen = [both_in_block |-> FALSE, torn |-> {}]
    /\ race_runs = 0

\* the step after position i of a sequence of steps, or "after" at its end
NextStep(steps, i, after) == IF i < Len(steps) THEN steps[i + 1] ELSE after

\* mutant: the initialization is guarded: the block is entered by one
\* invocation at a time
race_need_init_guarded(t) ==
    /\ NeedInit(dev_id_initialized)
    /\ \A u \in Invocations \ {t} : race_pc[u] \notin InBlock

\* if (!dev_id_initialized), as invocation t evaluates it
race_need_init(t) == NeedInit(dev_id_initialized)

\* the one statement of the revision store named step, applied to d
store_statement(d, rev, step) ==
    CASE step = "fw0" -> [d EXCEPT !.fw[1] = StoreRevision(d, rev).fw[1]]
      [] step = "fw1" -> [d EXCEPT !.fw[2] = StoreRevision(d, rev).fw[2]]
      [] step = "aux" -> [d EXCEPT !.aux = StoreRevision(d, rev).aux]

\* the one statement of the config read named step, applied to d
config_statement(d, data, step) ==
    CASE step = "id" -> [d EXCEPT !.id = ApplyConfig(d, data).id]
      [] step = "revision" -> [d EXCEPT !.revision = ApplyConfig(d, data).revision]
      [] step = "addn_dev_support" ->
             [d EXCEPT !.addn_dev_support = ApplyConfig(d, data).addn_dev_support]
      [] step = "manuf_id2" -> [d EXCEPT !.manuf_id[3] = ApplyConfig(d, data).manuf_id[3]]
      [] step = "manuf_id1" -> [d EXCEPT !.manuf_id[2] = ApplyConfig(d, data).manuf_id[2]]
      [] step = "manuf_id0" -> [d EXCEPT !.manuf_id[1] = ApplyConfig(d, data).manuf_id[1]]
      [] step = "prod_id1" -> [d EXCEPT !.prod_id[2] = ApplyConfig(d, data).prod_id[2]]
      [] step = "prod_id0" -> [d EXCEPT !.prod_id[1] = ApplyConfig(d, data).prod_id[1]]
      [] step = "cfg_aux" -> [d EXCEPT !.aux = ApplyConfig(d, data).aux]
      [] step = "latch" -> d

\* what the interleavings have shown once the invocations are at pcs
SeenBoth(pcs) ==
    [race_seen EXCEPT !.both_in_block = @ \/ (\A u \in Invocations : pcs[u] \in InBlock)]

\* how the record rec, packed by invocation t now, is torn:
\*   "partial": another invocation has copied id from dev_id.json and not yet
\*              manuf_id, and rec holds that id with manuf_id 0;
\*   "cleared": another invocation has cleared bit 7 and not yet set it, and
\*              rec shows "ready" though t was answered "not ready"
TornNow(t, rec) ==
    (IF /\ \E u \in Invocations \ {t} : race_pc[u] \in PartlyWritten
        /\ rec[1] # 0
        /\ <<rec[7], rec[8], rec[9]>> = <<0, 0, 0>>
     THEN {"partial"} ELSE {})
    \cup
    (IF /\ \E u \in Invocations \ {t} : race_pc[u] \in ClearedNotSet
        /\ race_loc[t].st = "notready"
        /\ rec[3] < 128
     THEN {"cleared"} ELSE {})

\* an invocation is dispatched: the locals are declared, *data_len is set
RaceBegin(t) ==
    /\ race_pc[t] \in {"idle", "done"}
    /\ race_runs < MaxRaceRuns
    /\ race_runs' = race_runs + 1
    /\ race_pc' = [race_pc EXCEPT ![t] = "test"]
    /\ race_loc' = [race_loc EXCEPT ![t] = FreshLocals]
    /\ race_resp' = [race_resp EXCEPT ![t] = << >>]
    /\ UNCHANGED <<char_is_signed, devVars, cvVars, guidVars, race_seen>>

\* if (!dev_id_initialized)
RaceTest(t) ==
    /\ race_pc[t] = "test"
    /\ race_pc' = [race_pc EXCEPT ![t] = IF race_need_init(t) THEN "version" ELSE "clear"]
    /\ race_seen' = SeenBoth(race_pc')
    /\ UNCHANGED <<char_is_signed, devVars, cvVars, guidVars, race_loc, race_resp, race_runs>>

\* the try block: the version is fetched and parsed into the locals
RaceVersion(t, ver) ==
    /\ race_pc[t] = "version"
    /\ \E got \in {GetRevision(ver)} :
          /\ race_loc' = [race_loc EXCEPT ![t].r = got.r, ![t].rev = got.rev]
          /\ race_pc' = [race_pc EXCEPT ![t] = IF got.r >= 0 THEN "fw0" ELSE "ipmi_ver"]
    /\ UNCHANGED <<char_is_signed, devVars, cvVars, guidVars, race_resp, race_seen, race_runs>>

\* one statement of "if (r >= 0) { ... }"
RaceStore(t) ==
    /\ \E i \in 1..Len(StoreSteps) :
          /\ race_pc[t] = StoreSteps[i]
          /\ dev_id' = store_statement(dev_id, race_loc[t].rev, StoreSteps[i])
          /\ race_pc' = [race_pc EXCEPT ![t] = NextStep(StoreSteps, i, "ipmi_ver")]
    /\ UNCHANGED <<char_is_signed, dev_id_initialized, queryVars, cvVars, guidVars,
                   race_loc, race_resp, race_seen, race_runs>>

\* dev_id.ipmi_ver = 2
RaceIpmiVer(t) ==
    /\ race_pc[t] = "ipmi_ver"
    /\ dev_id' = [dev_id EXCEPT !.ipmi_ver = 2]
    /\ race_pc' = [race_pc EXCEPT ![t] = "config"]
    /\ UNCHANGED <<char_is_signed, dev_id_initialized, queryVars, cvVars, guidVars,
                   race_loc, race_resp, race_seen, race_runs>>

\* dev_id.json is opened and parsed
RaceConfig(t, cfg) ==
    /\ race_pc[t] = "config"
    /\ race_loc' = [race_loc EXCEPT ![t].data = cfg.data,
                                    ![t].rc = ReadConfig(dev_id, cfg).rc]
    /\ race_pc' = [race_pc EXCEPT ![t] = IF cfg.kind = "ok" THEN ConfigSteps[1] ELSE "clear"]
    /\ UNCHANGED <<char_is_signed, devVars, cvVars, guidVars, race_resp, race_seen, race_runs>>

\* one statement of the branch that copies the JSON values, the last being
\* dev_id_initialized = true
RaceConfigField(t) ==
    /\ \E i \in 1..Len(ConfigSteps) :
          /\ race_pc[t] = ConfigSteps[i]
          /\ dev_id' = config_statement(dev_id, race_loc[t].data, ConfigSteps[i])
          /\ dev_id_initialized' = (dev_id_initialized \/ ConfigSteps[i] = "latch")
          /\ race_pc' = [race_pc EXCEPT ![t] = NextStep(ConfigSteps, i, "clear")]
    /\ UNCHANGED <<char_is_signed, queryVars, cvVars, guidVars,
                   race_loc, race_resp, race_seen, race_runs>>

\* dev_id.fw[0] &= IPMI_DEVID_FW1_MASK
RaceClear(t) ==
    /\ race_pc[t] = "clear"
    /\ dev_id' = ClearAvailability(dev_id)
    /\ race_pc' = [race_pc EXCEPT ![t] = "state"]
    /\ UNCHANGED <<char_is_signed, dev_id_initialized, queryVars, cvVars, guidVars,
                   race_loc, race_resp, race_seen, race_runs>>

\* if (!getCurrentBmcState())
RaceState(t, st) ==
    /\ race_pc[t] = "state"
    /\ race_loc' = [race_loc EXCEPT ![t].st = st]
    /\ race_pc' = [race_pc EXCEPT ![t] = IF st = "ready" THEN "pack" ELSE "set"]
    /\ UNCHANGED <<char_is_signed, devVars, cvVars, guidVars, race_resp, race_seen, race_runs>>

\* dev_id.fw[0] |= (1 << IPMI_DEVID_STATE_SHIFT)
RaceSet(t) ==
    /\ race_pc[t] = "set"
    /\ dev_id' = SetAvailability(dev_id, FALSE)
    /\ race_pc' = [race_pc EXCEPT ![t] = "pack"]
    /\ UNCHANGED <<char_is_signed, dev_id_initialized, queryVars, cvVars, guidVars,
                   race_loc, race_resp, race_seen, race_runs>>

\* memcpy(response, &dev_id, *data_len); return rc
RacePack(t) ==
    /\ race_pc[t] = "pack"
    /\ race_resp' = [race_resp EXCEPT ![t] = Pack(dev_id)]
    /\ race_pc' = [race_pc EXCEPT ![t] = "done"]
    /\ race_seen' = [race_seen EXCEPT !.torn = @ \cup TornNow(t, Pack(dev_id))]
    /\ UNCHANGED <<char_is_signed, devVars, cvVars, guidVars, race_loc, race_runs>>

Init ==
    /\ char_is_signed \in BOOLEAN
    /\ DevInit
    /\ CvIdle
    /\ GuidIdle
    /\ RaceIdle

Next == \E ver \in VersionOutcomes, cfg \in ConfigOutcomes, st \in StateOutcomes :
            GetDeviceId(ver, cfg, st)

Spec == Init /\ [][Next]_vars

InitConvert ==
    /\ char_is_signed \in BOOLEAN
    /\ DevInit
    /\ CvInit
    /\ GuidIdle
    /\ RaceIdle

NextConvert == ConvertVersion

SpecConvert == InitConvert /\ [][NextConvert]_vars

InitGuid ==
    /\ char_is_signed \in BOOLEAN
    /\ DevInit
    /\ CvIdle
    /\ GuidInit
    /\ RaceIdle

NextGuid ==
    \/ \E src \in {"ok", "InternalFailure"}, ub \in {"continue", "crash"} :
           GetSysGuid(src, ub)
    \/ \E src \in DevGuidSources, ub \in {"continue", "crash"} :
           GetDeviceGuid(src, ub)

SpecGuid == InitGuid /\ [][NextGuid]_vars

NextRace ==
    \E t \in Invocations :
        \/ RaceBegin(t)
        \/ RaceTest(t)
        \/ \E ver \in RaceVersions : RaceVersion(t, ver)
        \/ RaceStore(t)
        \/ RaceIpmiVer(t)
        \/ \E cfg \in RaceConfigs : RaceConfig(t, cfg)
        \/ RaceConfigField(t)
        \/ RaceClear(t)
        \/ \E st \in RaceStates : RaceState(t, st)
        \/ RaceSet(t)
        \/ RacePack(t)

SpecRace == Init /\ [][NextRace]_vars

(***************************************************************************)
(* Properties.                                                             *)
(***************************************************************************)
\* a Device ID response without the availability bit (bit 7 of fw byte 0)
StaticPart(rec) == [rec EXCEPT ![3] = @ % 128]

\* the availability bit of a Device ID response
AvailabilityBit(rec) == rec[3] \div 128

\* dev_id.json could not be opened or was not JSON in the last query
ConfigFailed == last.consulted /\ last.cfg.kind \in {"nofile", "badjson"}

\* id, revision, addn_dev_support, manuf_id and prod_id are 0, ipmi_ver is 2
DefaultIdentity(rec) ==
    /\ Len(rec) = SizeofDevId
    /\ rec[1] = 0 /\ rec[2] = 0 /\ rec[5] = 2 /\ rec[6] = 0
    /\ <<rec[7], rec[8], rec[9]>> = <<0, 0, 0>>
    /\ <<rec[10], rec[11]>> = <<0, 0>>

\* the tokens of the text given to convert_version, and of its minor token
CvTokens == tokenize(cut_v(cv_text), {".", "-"})

CvMinorTokens == IF Len(CvTokens) >= 2 THEN tokenize(CvTokens[2], {"r", "p"}) ELSE << >>

\* convert_version returned 0 on cv_text
CvParsed == cv_pc = "done" /\ cv_out.ex = "none" /\ cv_out.r = 0

\* the value of the longest prefix of hex digits of t (0 when it is empty)
RECURSIVE HexNumeral(_, _)
HexNumeral(t, acc) ==
    IF t = << >> \/ ~IsDigit(Head(t), 16) THEN acc
    ELSE HexNumeral(Tail(t), acc * 16 + DigitVal(Head(t)))

\* the first n characters of t, or all of t when it is shorter
FirstChars(t, n) == SubSeq(t, 1, MinOf(n, Len(t)))

\* a number below 2^24 as three bytes, most significant first
ThreeBytes(v) == << v \div 65536, (v \div 256) % 256, v % 256 >>

\* the places (from 1) of the tokens at index 3 or later that begin with 'g'
CvHashTokens == {i \in 4..Len(CvTokens) : CvTokens[i] # << >> /\ CvTokens[i][1] = "g"}

\* C1 as stated: from the second query on the sources are never consulted
\* again, also when the first initialization failed on the config source.
C1_NeverConsultedAfterFirst == queries >= 2 => ~last.consulted

\* C1, amended: a query consults VersionSource and ConfigSource exactly when
\* no earlier query has read and parsed the config successfully; once one
\* has, they are never consulted again, whether or not a version was parsed,
\* and until then every query retries the initialization.
C1_ConsultedUntilConfigRead ==
    queries >= 1 => (last.consulted <=> ~hist.cfg_ok_before)

\* C1 witness: a failed first initialization was retried, the retry read the
\* config without obtaining a revision, and the next query consulted nothing.
C1_Witness ==
    /\ queries = 3
    /\ hist.retried
    /\ hist.init_r < 0
    /\ hist.cfg_ok_before
    /\ ~last.consulted

\* C2 as stated: for a decimal minor token d in 0..99 of a parsed version, fw
\* byte 1 read back as BCD gives d.
C2_MinorBcdRoundTrip ==
    \A d \in 0..99 :
        (CvParsed /\ Len(CvTokens) >= 2 /\ CvTokens[2] = Dec(d))
            => (cv_dev.fw[2] % 16) + (cv_dev.fw[2] \div 16) * 10 = d

\* C3 as stated: outside the release form, four or more tokens none of which
\* (from index 3) begins with 'g' still convert successfully, with aux bytes
\* 0-2 zero.  (Major and minor tokens are numerals, so only the hash is at
\* stake.)
C3_MissingHashIsNoError ==
    ( /\ cv_pc = "done"
      /\ Len(CvTokens) >= 4
      /\ Len(CvMinorTokens) < 2
      /\ CvHashTokens = {}
      /\ stoi(CvTokens[1], 16).ex = "none"
      /\ stoi(CvTokens[2], 16).ex = "none" )
        => ( /\ cv_out.ex = "none"
             /\ cv_out.r = 0
             /\ SubSeq(cv_out.rev.aux, 1, 3) = <<0, 0, 0>> )

\* C4 as stated: a UUID text whose length without hyphens is not 32 is
\* rejected with the response error, no data length and no byte written.
C4_BadLengthRejected ==
    (guid_pc = "done" /\ guid_out.src = "ok" /\ Len(erase_hyphens(guid_text)) # 32)
        => ( /\ guid_out.outcome = "return"
             /\ guid_out.rc = "IPMI_CC_RESPONSE_ERROR"
             /\ guid_out.data_len = "unset"
             /\ guid_out.resp = << >>
             /\ guid_out.writes = << >> )

\* C5 as stated: whatever the three sources answer, the handler returns a
\* completion code with a 15-byte record; nothing escapes as an exception.
C5_HandlerAlwaysReturns ==
    queries >= 1 =>
        (outcome = "return" /\ rc # "none" /\ Len(response) = 15 /\ data_len = 15)

\* C6 as stated: a query in which no revision is obtained returns fw byte 0
\* bits 0-6 zero, fw byte 1 zero and aux zero unless the config overrides aux.
C6_NoRevisionMeansZero ==
    (queries >= 1 /\ outcome = "return" /\ last.consulted /\ last.r < 0)
        => ( /\ response[3] % 128 = 0
             /\ response[4] = 0
             /\ \/ SubSeq(response, 12, 15) = ZeroAux
                \/ (last.cfg.kind = "ok" /\ last.cfg.data.aux # 0) )

C8_AvailabilityBit ==
    (queries >= 1 /\ outcome = "return")
        => (AvailabilityBit(response) = 1 <=> last.st = "notready")

\* C8 witness: a later query answers "ready" after a query that answered "not
\* ready" and returned the bit set; the cached major is non-zero.
C8_Witness ==
    /\ queries >= 2
    /\ outcome = "return"
    /\ ~last.consulted
    /\ last.st = "ready"
    /\ hist.prev_st = "notready"
    /\ hist.prev_response # << >>
    /\ AvailabilityBit(hist.prev_response) = 1
    /\ AvailabilityBit(response) = 0
    /\ response[3] # 0

\* C9: once a query has completed initialization, every record returned
\* equals the record of that query except for bit 7 of fw byte 0, and two
\* consecutive returns under the same availability are byte-identical.
C9_StaticAfterInit ==
    /\ (hist.init_record # << >> /\ outcome = "return")
           => StaticPart(response) = StaticPart(hist.init_record)
    /\ (hist.prev_initialized /\ outcome = "return" /\ hist.prev_st = last.st)
           => response = hist.prev_response

\* C9 witness: two queries after the initializing one return the same record,
\* which differs from the initializing query's record in the availability bit.
C9_Witness ==
    /\ queries = 3
    /\ ~last.consulted
    /\ outcome = "return"
    /\ hist.prev_initialized
    /\ hist.prev_st = last.st
    /\ response = hist.prev_response
    /\ response # hist.init_record
    /\ StaticPart(response) = StaticPart(hist.init_record)
    /\ response[1] # 0
    /\ response[4] # 0

\* C10: for a parsed version, aux bytes 0-2 hold the release number (the
\* second r/p sub-token of the minor token read in base 16, at most 0x999999)
\* when the minor token has one, whatever 'g' tokens there are; otherwise the
\* up to 6 hex digits after the 'g' of the first 'g' token at index 3 or
\* later, read in base 16 (zero when there are fewer than four tokens).
C10_AuxForm ==
    CvParsed =>
        SubSeq(cv_out.rev.aux, 1, 3) =
            IF Len(CvMinorTokens) >= 2
            THEN ThreeBytes(MinOf(HexNumeral(CvMinorTokens[2], 0), AUX_MAX_RELEASE))
            ELSE IF CvHashTokens # {}
            THEN ThreeBytes(HexNumeral(FirstChars(Tail(CvTokens[SetMin(CvHashTokens)]), 6), 0))
            ELSE <<0, 0, 0>>

\* C10 witness: a release-format version with a 'g' token at index 3 or later
\* was parsed, and aux bytes 0-2 hold the release number.
C10_Witness ==
    /\ CvParsed
    /\ Len(CvMinorTokens) >= 2
    /\ CvHashTokens # {}
    /\ SubSeq(cv_out.rev.aux, 1, 3) = <<24, 6, 8>>

\* the value of the longest prefix of decimal digits of t
RECURSIVE DecNumeral(_, _)
DecNumeral(t, acc) ==
    IF t = << >> \/ ~IsDigit(Head(t), 10) THEN acc
    ELSE DecNumeral(Tail(t), acc * 10 + DigitVal(Head(t)))

\* the word dirty occurs in the text t
HasDirty(t) == \E i \in 1..Len(t) : \E j \in i..Len(t) : SubSeq(t, i, j) = DirtyWord

\* the text after its first 'v', or the whole text when it has none
AfterFirstV(t) ==
    IF \E i \in 1..Len(t) : t[i] = "v"
    THEN SubSeq(t, SetMin({i \in 1..Len(t) : t[i] = "v"}) + 1, Len(t))
    ELSE t

\* bits 1-7 of aux byte 3 of a parsed version: the patch level, the third r/p
\* sub-token of the minor token in base 10, at most 127; 0 without one
PatchBitsAsSpecified ==
    cv_out.rev.aux[4] \div 2 =
        IF Len(CvMinorTokens) >= 3
        THEN MinOf(DecNumeral(CvMinorTokens[3], 0), AUX_MAX_PATCH)
        ELSE 0

\* aux bytes 0-2 of a parsed version are those of the text with every
\* occurrence of the word dirty left out of account: release number, hash
\* digits or zero
TopBytesAsWithoutDirty ==
    SubSeq(cv_out.rev.aux, 1, 3) =
        IF Len(CvMinorTokens) >= 2
        THEN ThreeBytes(MinOf(HexNumeral(CvMinorTokens[2], 0), AUX_MAX_RELEASE))
        ELSE IF CvHashTokens # {}
        THEN ThreeBytes(HexNumeral(FirstChars(Tail(CvTokens[SetMin(CvHashTokens)]), 6), 0))
        ELSE <<0, 0, 0>>

GuidHex == SelectSeq(guid_text, LAMBDA c : c # "-")

\* the byte written by the k-th (from 0) two-character group of the UUID text
GuidGroupByte(k) == 16 * DigitVal(GuidHex[2 * k + 1]) + DigitVal(GuidHex[2 * k + 2])

\* C12: a UUID text of exactly 32 hex characters besides its hyphens is
\* converted successfully to 16 bytes, and the byte of the k-th two-character
\* group (k = 0..15, left to right) is at output index 15 - k.
C12_GuidReversed ==
    ( /\ guid_pc = "done"
      /\ guid_out.src = "ok"
      /\ Len(GuidHex) = 32
      /\ \A i \in 1..32 : IsDigit(GuidHex[i], 16) )
        => ( /\ guid_out.outcome = "return"
             /\ guid_out.rc = "IPMI_CC_OK"
             /\ guid_out.data_len = 16
             /\ Len(guid_out.resp) = 16
             /\ \A k \in 0..15 : guid_out.resp[(15 - k) + 1] = GuidGroupByte(k) )

\* C12 witness: 61a39523-78f2-11e5-9862-e6402cfc3223 was converted; 0x23 is
\* at output index 0 and 0x61 at index 15.
C12_Witness ==
    /\ guid_pc = "done"
    /\ guid_text = ExampleGuid
    /\ guid_out.rc = "IPMI_CC_OK"
    /\ guid_out.resp[1] = 35
    /\ guid_out.resp[16] = 97

C14_NoInitGuard ==
    \A t \in Invocations :
        (race_pc[t] = "test" /\ ~dev_id_initialized)
            => ENABLED (RaceTest(t) /\ race_pc'[t] = "version")

\* C14 witness: both invocations have been inside the block at once; a
\* response was packed while the other invocation had copied id but not yet
\* manuf_id from dev_id.json, holding that id with manuf_id 0; and a response
\* was packed while the other invocation had cleared bit 7 and not yet set
\* it, showing "ready" for an invocation that was answered "not ready".
C14_Witness ==
    /\ race_seen.both_in_block
    /\ race_seen.torn = {"partial", "cleared"}
    /\ \E u \in Invocations :
          /\ race_pc[u] = "done"
          /\ race_loc[u].st = "notready"
          /\ AvailabilityBit(race_resp[u]) = 0

\* C15 as stated: in both GUID handlers, whatever UUID text the property
\* source returns, every write into the 16-byte buffer is at an index in
\* 0..15.
C15_GuidWritesInBounds ==
    guid_pc = "done" =>
        /\ \A k \in 1..Len(guid_out.writes) : guid_out.writes[k] \in 0..15
        /\ \A k \in 1..Len(devguid_out.writes) : devguid_out.writes[k] \in 0..15

====
